---- MODULE Spec2Model ----
(***************************************************************************)
(* Model of the enterprise-copilot front end.                              *)
(*                                                                         *)
(*  - Spec      : the CorporateCopilot prototype of src/main.jsx (persona  *)
(*                switch, chat send, the 1200 ms agent timer, the IAM      *)
(*                check simulation and the in-memory audit log).           *)
(*  - SpecView  : the audit panel of src/frontend/src/App.jsx (websocket   *)
(*                stream + polling query) against the audit service.       *)
(*  - SpecPolicy: the capability resolver and the retrieval filter builder *)
(*                of the back end (IAM middleware), from their contract.   *)
(*  - SpecApi   : the API client of src/frontend/src/services/api.js (the  *)
(*                axios client with its interceptors, the streaming chat   *)
(*                call, the audit websocket) as App and the views call it. *)
(*  - SpecChat  : the streaming chat view (ChatView of part_006): sends,   *)
(*                stream events, and reloads of the conversation.          *)
(*  - SpecPlain : the chat view without streaming (views/ChatView.jsx):    *)
(*                a send, its simulated-progress timer and its response.   *)
(*  - SpecOps   : the live-ops view (views/LiveOpsView.jsx): diagnosis of   *)
(*                an alert and simulated remediation, driven by timers.    *)
(*  - SpecSse   : the read loop of chatAPI.streamQuery (api.js) on a       *)
(*                response body that arrives in chunks.                    *)
(***************************************************************************)
EXTENDS Integers, Sequences, FiniteSets, TLC

VARIABLES
    activePersona,  \* main.jsx:191  key of PERSONAS
    messages,       \* main.jsx:194  chat messages, oldest first (the ids
                    \* of messages, read by no code, are left out)
    input,          \* main.jsx:195  text of the input box
    isTyping,       \* main.jsx:196
    auditLogs,      \* main.jsx:197  audit entries, newest first
    showLogs,       \* main.jsx:198
    now,            \* Date.now(), in ms
    ticks,          \* number of clock steps taken (bounds the clock)
    timers,         \* pending setTimeout callbacks of handleSend
    nextReq,        \* history: number of requests submitted so far
    submitted,      \* history: request number -> [role, content]
    handled,        \* history: request number -> what the callback did
    srvLog,         \* audit service: recorded entries, oldest first
    srvSubscribed,  \* audit service: the client's socket is registered
    wsState,        \* App.jsx:67   wsRef: "none" | "connecting" | "open"
    wsSockets,      \* number of audit sockets created and not closed
    wsChannel,      \* entries published to the socket, not yet delivered
    httpReplies,    \* answers of GET /api/audit/logs not yet delivered
    httpRequests,   \* number of GET /api/audit/logs not yet served
    viewShowLogs,   \* App.jsx:60   showLogs
    viewLogs,       \* App.jsx:59   auditLogs, newest first
    viewOps,        \* number of panel operations taken (bounds the run)
    polRole,        \* policy store: the role loaded, <<>> before load
    polIntent,      \* the intent of the request being resolved, or <<>>
    polDecision,    \* the decision of the resolver for it, or <<>>
    polFilter,      \* the retrieval filter built from the decision, or <<>>
    currentIAMRole, \* api.js:23   window.currentIAMRole
    apiQueue,       \* axios requests whose request interceptor has not run
    apiWire,        \* requests and connections sent, in sending order
    apiOutcome,     \* how the last answered axios call settled, or <<>>
    apiPersonas,    \* App.jsx:61  personas: persona key -> role shown
    sseFrames,      \* history: the frames of the response body, in order
    sseBody,        \* the text of the response body
    sseRead,        \* how many characters of it reader.read() has handed over
    sseBuffer,      \* api.js:107  buffer
    sseYielded,     \* what streamQuery has yielded so far, in order
    sseCut,         \* history: a chunk ended inside a frame or its blank line
    sseState,       \* "idle" | "reading" | "done": position in streamQuery
    cvInput,        \* part_006:66 input, a sequence of characters
    cvIsLoading,    \* part_006:67 isLoading
    cvIsStreaming,  \* part_006:68 isStreaming
    cvMessages,     \* part_006:69 messages
    cvConversationId, \* part_006:70 conversationId, 0 for null
    cvSends,        \* how many sends handleSend has accepted
    cvStreams,      \* per accepted send: "idle" | "open" | "closed", the
                    \* position of its for-await loop
    cvLoads,        \* calls of loadConversationMessages awaiting their reply
    cvEvents,       \* how many stream events have been delivered
    cvLastStream,   \* history: the send whose stream delivered the last event
    cvReceived,     \* history: what the latest send's assistant message
                    \* holds when nothing received for it is dropped
    srvConversation, \* the messages the service holds for the conversation
    ncInput,        \* ChatView.jsx input, a sequence of characters
    ncIsLoading,    \* ChatView.jsx isLoading
    ncMessages,     \* ChatView.jsx messages
    ncSends,        \* how many sends handleSend has accepted
    ncCalls,        \* per accepted send: "idle" | "pending" | "settled", the
                    \* state of its call of sendQuery
    ncTimers,        \* the sends whose 800 ms timer has not fired yet
    opActiveAlert,  \* LiveOpsView.jsx:16 activeAlert, its id, 0 for null
    opDiagnosis,    \* LiveOpsView.jsx:17 diagnosis: [state, steps]
    opAction,       \* LiveOpsView.jsx:18 simulatedAction
    opLogs,         \* LiveOpsView.jsx:15 logs: the entries of executed actions
    opTimers,       \* the timers set by setTimeout, in the order of the calls
    opNow,          \* the time, in units of 500 ms
    opClicks        \* how many clicks the view has handled

mainVars == <<activePersona, messages, input, isTyping, auditLogs, showLogs,
              now, ticks, timers, nextReq, submitted, handled>>
viewVars == <<srvLog, srvSubscribed, wsState, wsSockets, wsChannel, httpReplies,
              httpRequests, viewShowLogs, viewLogs, viewOps>>
polVars == <<polRole, polIntent, polDecision, polFilter>>
apiVars == <<currentIAMRole, apiQueue, apiWire, apiOutcome, apiPersonas>>
sseVars == <<sseFrames, sseBody, sseRead, sseBuffer, sseYielded, sseCut,
            sseState>>
cvVars == <<cvInput, cvIsLoading, cvIsStreaming, cvMessages, cvConversationId,
           cvSends, cvStreams, cvLoads, cvEvents, cvLastStream, cvReceived,
           srvConversation>>
ncVars == <<ncInput, ncIsLoading, ncMessages, ncSends, ncCalls, ncTimers>>
opVars == <<opActiveAlert, opDiagnosis, opAction, opLogs, opTimers, opNow, opClicks>>
vars == <<mainVars, viewVars, polVars, apiVars, sseVars, cvVars, ncVars, opVars>>

\* What the actions of one component leave unchanged: the other components
notMain == <<viewVars, polVars, apiVars, sseVars, cvVars, ncVars, opVars>>
notView == <<mainVars, polVars, apiVars, sseVars, cvVars, ncVars, opVars>>
notPolicy == <<mainVars, viewVars, apiVars, sseVars, cvVars, ncVars, opVars>>
notApi == <<mainVars, viewVars, polVars, sseVars, cvVars, ncVars, opVars>>
notSse == <<mainVars, viewVars, polVars, apiVars, cvVars, ncVars, opVars>>
notCv == <<mainVars, viewVars, polVars, apiVars, sseVars, ncVars, opVars>>
notNc == <<mainVars, viewVars, polVars, apiVars, sseVars, cvVars, opVars>>
notOp == <<mainVars, viewVars, polVars, apiVars, sseVars, cvVars, ncVars>>

----------------------------------------------------------------------------
(* Bounds *)

MaxRequests == 2    \* requests submitted in one run
MaxTicks == 2       \* clock steps in one run
MaxSensitivity == 2 \* the sensitivity levels of the policy are 0..MaxSensitivity
MaxCalls == 2       \* API calls made in one run
MaxPersonas == 2    \* personas in one answer of GET /api/personas
MaxFrames == 2      \* frames in one response body of /api/chat/stream
MaxChunk == 12      \* characters in one chunk of a response body
MaxSends == 2       \* sends accepted by the streaming chat view
MaxEvents == 3      \* stream events delivered to the streaming chat view
MaxLoads == 2       \* reloads of the conversation awaiting their reply
MaxOpClock == 12    \* time in the live-ops view, in units of 500 ms
MaxClicks == 3      \* clicks handled by the live-ops view

----------------------------------------------------------------------------
(* Text.  A text is a sequence of words; a word is a string.  toLowerCase    *)
(* and String.includes are computed word by word: no keyword of the code    *)
(* contains a blank, so a keyword occurs in a text iff it occurs in a word. *)

Keywords == {"ticket", "bug", "jira", "code", "grep", "function", "policy",
             "pto", "interview", "schedule", "revenue", "financial",
             "project", "timeline"}

LowerTable ==
    [w \in {"Summarize", "Revenue", "Show", "Project", "Timeline", "Create",
            "Jira", "Ticket", "Draft", "Onboarding", "Policy", "Grep",
            "Codebase", "Financial"} |->
        CASE w = "Summarize"  -> "summarize"
          [] w = "Revenue"    -> "revenue"
          [] w = "Show"       -> "show"
          [] w = "Project"    -> "project"
          [] w = "Timeline"   -> "timeline"
          [] w = "Create"     -> "create"
          [] w = "Jira"       -> "jira"
          [] w = "Ticket"     -> "ticket"
          [] w = "Draft"      -> "draft"
          [] w = "Onboarding" -> "onboarding"
          [] w = "Policy"     -> "policy"
          [] w = "Grep"       -> "grep"
          [] w = "Codebase"   -> "codebase"
          [] w = "Financial"  -> "financial"]

\* Mutant: the text is matched as typed.
toLowerCase_Identity(w) == w

\* String.prototype.toLowerCase on one word: words without capitals are
\* left as they are.
toLowerCase(w) == IF w \in DOMAIN LowerTable THEN LowerTable[w] ELSE w

\* The keywords that are substrings of a word (case-sensitive, as includes).
SubstringsOf(w) ==
    CASE w = "codebase"   -> {"code"}
      [] w = "debug"      -> {"bug"}
      [] w = "financials" -> {"financial"}
      [] w \in Keywords   -> {w}
      [] OTHER            -> {}

\* content.toLowerCase()
LowerText(content) == [i \in 1..Len(content) |-> toLowerCase(content[i])]

\* lowerInput.includes(kw)
includes(lowerInput, kw) ==
    \E i \in 1..Len(lowerInput) : kw \in SubstringsOf(lowerInput[i])

\* input.trim() is the empty string
IsBlank(text) == \A i \in 1..Len(text) : text[i] = " "

Queries ==
    { <<"Summarize", "Q3", "Revenue">>,
      <<"show", "me", "the", "authentication", "function">>,
      <<"employee", "compensation", "breakdown">>,
      <<"Show", "the", "Financial", "code">>,
      <<"Create", "Jira", "Ticket", "for", "Codebase">>,
      <<"Draft", "Onboarding", "Policy", "financials">>,
      <<"Show", "Project", "Timeline", "code">> }

Inputs == Queries \cup { <<>>, <<" ">> }

----------------------------------------------------------------------------
(* Personas *)

PERSONAS ==
    [ CSUITE |-> [ role |-> "CHIEF_STRATEGY_OFFICER", name |-> "Eleanor Vance",
                   permissions |-> {"READ_FINANCIALS", "READ_HR_AGGREGATE",
                                    "WRITE_STRATEGY", "CALENDAR_WRITE"} ],
      HR     |-> [ role |-> "HR_DIRECTOR", name |-> "Marcus Thorne",
                   permissions |-> {"READ_EMPLOYEE_PII", "WRITE_POLICY",
                                    "CALENDAR_WRITE", "SLACK_BROADCAST"} ],
      IT     |-> [ role |-> "SR_DEVOPS_ENGINEER", name |-> "Sarah Chen",
                   permissions |-> {"READ_CODEBASE", "WRITE_JIRA",
                                    "RESTART_SERVICES", "READ_LOGS"} ] ]

PersonaKeys == {"CSUITE", "HR", "IT"}

Roles == { PERSONAS[k].role : k \in PersonaKeys }

PermissionsOf(role) ==
    PERSONAS[CHOOSE k \in PersonaKeys : PERSONAS[k].role = role].permissions

----------------------------------------------------------------------------
(* The agent logic of the timer callback of handleSend (main.jsx:243-315).  *)
(* A result holds the four locals of the callback and the trace of what the *)
(* callback did, in program order: GENERATE (response text written by a     *)
(* persona rule), READ_DOC (a MOCK_DOCS document read), ATTACH (an          *)
(* attachment built), IAM_CHECK (the allow/deny test evaluated).            *)

Start ==
    [ responseContent |-> "CANT_HELP", attachment |-> "NONE",
      actionType |-> "GENERAL_QUERY", status |-> "ALLOWED", trace |-> <<>> ]

ITLogic(r, role, lowerInput) ==
    IF role # "SR_DEVOPS_ENGINEER" THEN r
    ELSE IF includes(lowerInput, "ticket") \/ includes(lowerInput, "bug")
            \/ includes(lowerInput, "jira")
         THEN [r EXCEPT !.actionType = "WRITE_JIRA",
                        !.responseContent = "JIRA_DRAFTED",
                        !.attachment = "TICKET",
                        !.trace = @ \o <<"GENERATE", "ATTACH">>]
    ELSE IF includes(lowerInput, "code") \/ includes(lowerInput, "grep")
            \/ includes(lowerInput, "function")
         THEN [r EXCEPT !.actionType = "READ_CODEBASE",
                        !.responseContent = "FOUND_SNIPPET",
                        !.attachment = "CODE",
                        !.trace = @ \o <<"GENERATE", "READ_DOC", "ATTACH">>]
    ELSE r

HRLogic(r, role, lowerInput) ==
    IF role # "HR_DIRECTOR" THEN r
    ELSE IF includes(lowerInput, "policy") \/ includes(lowerInput, "pto")
         THEN [r EXCEPT !.actionType = "READ_POLICY_DOCS",
                        !.responseContent = "MOCK_DOCS.policy",
                        !.attachment = "TICKET",
                        !.trace = @ \o <<"GENERATE", "ATTACH", "READ_DOC">>]
    ELSE IF includes(lowerInput, "interview") \/ includes(lowerInput, "schedule")
         THEN [r EXCEPT !.actionType = "CALENDAR_WRITE",
                        !.responseContent = "INTERVIEW_SLOTS",
                        !.attachment = "CALENDAR",
                        !.trace = @ \o <<"GENERATE", "ATTACH">>]
    ELSE r

CSuiteLogic(r, role, lowerInput) ==
    IF role # "CHIEF_STRATEGY_OFFICER" THEN r
    ELSE IF includes(lowerInput, "revenue") \/ includes(lowerInput, "financial")
         THEN [r EXCEPT !.actionType = "READ_FINANCIALS",
                        !.responseContent = "MOCK_DOCS.financials",
                        !.trace = @ \o <<"READ_DOC">>]
    ELSE IF includes(lowerInput, "project") \/ includes(lowerInput, "timeline")
         THEN [r EXCEPT !.actionType = "READ_STRATEGY",
                        !.responseContent = "ROADMAP",
                        !.attachment = "GANTT",
                        !.trace = @ \o <<"GENERATE", "ATTACH">>]
    ELSE r

\* Mutant: the check tests the persona that is active when the callback
\* runs, not the one the request was sent under.
IAMDenies_LivePersona(role, lowerInput) ==
    \/ includes(lowerInput, "code")
       /\ PERSONAS[activePersona].role # "SR_DEVOPS_ENGINEER"
    \/ includes(lowerInput, "financial")
       /\ PERSONAS[activePersona].role # "CHIEF_STRATEGY_OFFICER"

\* The condition of the IAM check simulation (main.jsx:308-311)
IAMDenies(role, lowerInput) ==
    \/ includes(lowerInput, "code") /\ role # "SR_DEVOPS_ENGINEER"
    \/ includes(lowerInput, "financial") /\ role # "CHIEF_STRATEGY_OFFICER"

\* Mutant: the check only denies what no persona rule has granted.
IAMCheck_GrantWins(r, role, lowerInput) ==
    IF IAMDenies(role, lowerInput) /\ r.actionType = "GENERAL_QUERY"
    THEN [r EXCEPT !.status = "DENIED",
                   !.responseContent = "ACCESS_DENIED",
                   !.attachment = "NONE",
                   !.trace = @ \o <<"IAM_CHECK">>]
    ELSE [r EXCEPT !.trace = @ \o <<"IAM_CHECK">>]

IAMCheck(r, role, lowerInput) ==
    IF IAMDenies(role, lowerInput)
    THEN [r EXCEPT !.status = "DENIED",
                   !.responseContent = "ACCESS_DENIED",
                   !.attachment = "NONE",
                   !.trace = @ \o <<"IAM_CHECK">>]
    ELSE [r EXCEPT !.trace = @ \o <<"IAM_CHECK">>]

AgentLogic(role, content) ==
    LET lowerInput == LowerText(content)
        r1 == ITLogic(Start, role, lowerInput)
        r2 == HRLogic(r1, role, lowerInput)
        r3 == CSuiteLogic(r2, role, lowerInput)
    IN  IAMCheck(r3, role, lowerInput)

----------------------------------------------------------------------------
(* CorporateCopilot (src/main.jsx) *)

TimerDelay == 1200   \* ms, the delay of the agent timer

\* The greeting the persona effect puts in the chat
Greeting(k) ==
    [ type |-> "agent", content |-> "GREETING", attachment |-> "NONE",
      iamRole |-> PERSONAS[k].role, req |-> 0 ]

InitMain ==
    /\ activePersona = "CSUITE"
    /\ now = 0
    /\ ticks = 0
    /\ messages = << [ type |-> "agent", content |-> "GREETING",
                       attachment |-> "NONE",
                       iamRole |-> PERSONAS["CSUITE"].role,
                       req |-> 0 ] >>
    /\ input = <<>>
    /\ isTyping = FALSE
    /\ auditLogs = <<>>
    /\ showLogs = FALSE
    /\ timers = <<>>
    /\ nextReq = 0
    /\ submitted = <<>>
    /\ handled = <<>>

\* The clock advances by a millisecond or by the length of the agent timer.
Tick ==
    /\ ticks < MaxTicks
    /\ \E d \in {1, TimerDelay} : now' = now + d
    /\ ticks' = ticks + 1
    /\ UNCHANGED <<activePersona, messages, input, isTyping, auditLogs,
                   showLogs, timers, nextReq, submitted, handled>>
    /\ UNCHANGED notMain

\* onClick of a persona button: setActivePersona(p), then the effect on
\* [activePersona] resets the chat.  Setting the persona that is already
\* active changes no state and runs no effect.
SwitchPersona(k) ==
    /\ k # activePersona
    /\ activePersona' = k
    /\ messages' = << Greeting(k) >>
    /\ UNCHANGED <<input, isTyping, auditLogs, showLogs, now, ticks, timers,
                   nextReq, submitted, handled>>
    /\ UNCHANGED notMain

\* onChange of the input box, onClick of a suggestion chip
SetInput(text) ==
    /\ nextReq < MaxRequests
    /\ text # input
    /\ input' = text
    /\ UNCHANGED <<activePersona, messages, isTyping, auditLogs, showLogs,
                   now, ticks, timers, nextReq, submitted, handled>>
    /\ UNCHANGED notMain

\* The header button and the close button of the trace panel
ToggleLogs ==
    /\ showLogs' = ~showLogs
    /\ UNCHANGED <<activePersona, messages, input, isTyping, auditLogs, now,
                   ticks, timers, nextReq, submitted, handled>>
    /\ UNCHANGED notMain

\* Mutant: the callback reads the persona that is active when it runs.
CallbackPersona_Current(t) == activePersona

\* The persona whose role the timer callback of a request works under: the
\* callback closes over the activePersona of the render handleSend ran in.
CallbackPersona(t) == t.persona

\* handleSend up to setTimeout: a blank input returns at once.
HandleSend ==
    /\ ~IsBlank(input)
    /\ nextReq < MaxRequests
    /\ nextReq' = nextReq + 1
    /\ messages' = Append(messages,
            [ type |-> "user", content |-> input, attachment |-> "NONE",
              iamRole |-> "", req |-> nextReq' ])
    /\ input' = <<>>
    /\ isTyping' = TRUE
    /\ timers' = Append(timers,
            [ req |-> nextReq', persona |-> activePersona, content |-> input,
              due |-> now + TimerDelay ])
    /\ submitted' = Append(submitted,
            [ role |-> PERSONAS[activePersona].role, content |-> input ])
    /\ UNCHANGED <<activePersona, auditLogs, showLogs, now, ticks, handled>>
    /\ UNCHANGED notMain

\* Date.now() as addAuditLog reads it for the id of the new entry
AuditId == now

\* addAuditLog(action, status, details): the new entry
NewLog(t, r) ==
    [ id |-> AuditId,
      actor |-> PERSONAS[CallbackPersona(t)].name,
      iamRole |-> PERSONAS[CallbackPersona(t)].role,
      action |-> r.actionType,
      status |-> r.status,
      req |-> t.req ]

\* Mutant: denied requests are answered but not logged.
AddAuditLog_DeniedDropped(prev, newLog) ==
    IF newLog.status = "DENIED" THEN prev ELSE <<newLog>> \o prev

\* setAuditLogs(prev => [newLog, ...prev])
AddAuditLog(prev, newLog) == <<newLog>> \o prev

\* The timer callback of handleSend: agent logic, IAM check, then the agent
\* message, isTyping and the audit entry in one batch of state updates.
\* Timers of equal delay run in the order they were set.
TimerFire ==
    /\ timers # <<>>
    /\ LET t == Head(timers)
           role == PERSONAS[CallbackPersona(t)].role
           r == AgentLogic(role, t.content)
       IN  /\ now >= t.due
           /\ messages' = Append(messages,
                   [ type |-> "agent", content |-> r.responseContent,
                     attachment |-> r.attachment, iamRole |-> role,
                     req |-> t.req ])
           /\ isTyping' = FALSE
           /\ auditLogs' = AddAuditLog(auditLogs, NewLog(t, r))
           /\ handled' = Append(handled,
                   [ req |-> t.req, role |-> role, content |-> t.content,
                     status |-> r.status, attachment |-> r.attachment,
                     responseContent |-> r.responseContent,
                     trace |-> r.trace ])
    /\ timers' = Tail(timers)
    /\ UNCHANGED <<activePersona, input, showLogs, now, ticks, nextReq,
                   submitted>>
    /\ UNCHANGED notMain

----------------------------------------------------------------------------
(* The audit panel of App (src/frontend/src/App.jsx) and the audit service  *)
(* it talks to.  The service is not part of the front end; it is modelled   *)
(* from its contract: record appends an entry with the next id and          *)
(* publishes it to the registered subscriber, query returns the newest      *)
(* entries first, at most limit of them.                                    *)

MaxRecords == 3    \* entries recorded in one run
MaxViewOps == 3    \* times the panel is shown or hidden in one run
ViewLimit == 2     \* the window of the panel: the 50 of slice(0, 50) and of
                   \* getLogs(50, role), scaled down

InitView ==
    /\ srvLog = <<>>
    /\ srvSubscribed = FALSE
    /\ wsState = "none"
    /\ wsSockets = 0
    /\ wsChannel = <<>>
    /\ httpReplies = {}
    /\ httpRequests = 0
    /\ viewShowLogs = FALSE
    /\ viewLogs = <<>>
    /\ viewOps = 0

\* The first n elements of a sequence: Array.prototype.slice(0, n)
slice(seq, n) == SubSeq(seq, 1, IF Len(seq) < n THEN Len(seq) ELSE n)

Reverse(seq) == [i \in 1..Len(seq) |-> seq[Len(seq) + 1 - i]]

\* record(entry_template): the entry gets the next id; sub names the
\* subscription that is registered when it is recorded (0: none).
SrvRecord ==
    /\ Len(srvLog) < MaxRecords
    /\ \E st \in {"ALLOWED", "DENIED"} :
         LET e == [ id |-> Len(srvLog) + 1, status |-> st,
                    sub |-> IF srvSubscribed THEN viewOps ELSE 0 ]
         IN  /\ srvLog' = Append(srvLog, e)
             /\ wsChannel' = IF srvSubscribed THEN Append(wsChannel, e)
                                              ELSE wsChannel
    /\ UNCHANGED <<wsSockets, srvSubscribed, wsState, httpReplies, httpRequests,
                   viewShowLogs, viewLogs, viewOps>>
    /\ UNCHANGED notView

\* query(limit): most recent first
SrvQuery(limit) == slice(Reverse(srvLog), limit)

\* The service answers one GET /api/audit/logs?limit=...
SrvServeQuery ==
    /\ httpRequests > 0
    /\ httpRequests' = httpRequests - 1
    /\ httpReplies' = httpReplies \cup { SrvQuery(ViewLimit) }
    /\ UNCHANGED <<wsSockets, srvLog, srvSubscribed, wsState, wsChannel, viewShowLogs,
                   viewLogs, viewOps>>
    /\ UNCHANGED notView

\* The service accepts the socket and registers the subscriber
SrvAccept ==
    /\ wsState = "connecting"
    /\ wsState' = "open"
    /\ srvSubscribed' = TRUE
    /\ UNCHANGED <<wsSockets, srvLog, wsChannel, httpReplies, httpRequests,
                   viewShowLogs, viewLogs, viewOps>>
    /\ UNCHANGED notView

\* setShowLogs(true): the stream effect opens the socket (wsRef is null
\* whenever the panel is hidden) and the load effect calls loadAuditLogs.
ShowLogs ==
    /\ ~viewShowLogs
    /\ viewOps < MaxViewOps
    /\ viewOps' = viewOps + 1
    /\ viewShowLogs' = TRUE
    /\ wsState' = IF wsState = "none" THEN "connecting" ELSE wsState
    /\ wsSockets' = IF wsState = "none" THEN wsSockets + 1 ELSE wsSockets
    /\ httpRequests' = httpRequests + 1
    /\ UNCHANGED <<srvLog, srvSubscribed, wsChannel, httpReplies, viewLogs>>
    /\ UNCHANGED notView

\* Mutant: the cleanup of the stream effect leaves the socket alone.
HideLogs_SocketLeftOpen ==
    /\ viewShowLogs
    /\ viewOps < MaxViewOps
    /\ viewOps' = viewOps + 1
    /\ viewShowLogs' = FALSE
    /\ UNCHANGED <<wsState, wsSockets, srvSubscribed, wsChannel>>
    /\ UNCHANGED <<srvLog, httpReplies, httpRequests, viewLogs>>
    /\ UNCHANGED notView

\* setShowLogs(false): the cleanup of the stream effect closes the socket
\* and clears wsRef; a closed socket delivers nothing more.
HideLogs ==
    /\ viewShowLogs
    /\ viewOps < MaxViewOps
    /\ viewOps' = viewOps + 1
    /\ viewShowLogs' = FALSE
    /\ wsState' = "none"
    /\ wsSockets' = IF wsState # "none" THEN wsSockets - 1 ELSE wsSockets
    /\ srvSubscribed' = FALSE
    /\ wsChannel' = <<>>
    /\ UNCHANGED <<srvLog, httpReplies, httpRequests, viewLogs>>
    /\ UNCHANGED notView

\* Mutant: the stream handler keeps the whole list.
OnStreamLog_Unbounded(prev, log) == <<log>> \o prev

\* The onMessage callback of connectStream:
\* setAuditLogs(prev => [log, ...prev].slice(0, 50))
OnStreamLog(prev, log) == slice(<<log>> \o prev, ViewLimit)

\* ws.onmessage: the next published entry reaches the client
WsDeliver ==
    /\ wsChannel # <<>>
    /\ wsState = "open"
    /\ viewLogs' = OnStreamLog(viewLogs, Head(wsChannel))
    /\ wsChannel' = Tail(wsChannel)
    /\ UNCHANGED <<wsSockets, srvLog, srvSubscribed, wsState, httpReplies, httpRequests,
                   viewShowLogs, viewOps>>
    /\ UNCHANGED notView

\* loadAuditLogs after the await: setAuditLogs(logs)
OnLogsLoaded(prev, logs) == logs

\* The answer of a GET /api/audit/logs reaches loadAuditLogs
HttpDeliver ==
    /\ \E logs \in httpReplies :
         /\ viewLogs' = OnLogsLoaded(viewLogs, logs)
         /\ httpReplies' = httpReplies \ {logs}
    /\ UNCHANGED <<wsSockets, srvLog, srvSubscribed, wsState, wsChannel, httpRequests,
                   viewShowLogs, viewOps>>
    /\ UNCHANGED notView

NextView ==
    \/ SrvRecord
    \/ SrvServeQuery
    \/ SrvAccept
    \/ ShowLogs
    \/ HideLogs
    \/ WsDeliver
    \/ HttpDeliver

----------------------------------------------------------------------------
(* The capability resolver and the retrieval filter builder.  They belong  *)
(* to the back end (IAM middleware, iam_config.py), which is not part of    *)
(* the front end; they are modelled from their contract: a role holds       *)
(* granted and denied scopes, forbidden intent categories, granted          *)
(* categories and a sensitivity ceiling; resolve tests the forbidden        *)
(* categories, then the scopes, and otherwise allows with the filter of    *)
(* the role; build hands the filter of an Allow decision on.                *)

Scopes == {"READ_FINANCIALS", "READ_CODEBASE"}

Categories == {"FINANCIAL", "CODE", "EMPLOYEE_PII"}

\* The roles a policy source can define, contradictory ones included
RoleDefs ==
    [ granted_scopes : SUBSET Scopes,
      denied_scopes : SUBSET Scopes,
      forbidden_intent_categories : SUBSET Categories,
      granted_categories : SUBSET Categories,
      max_sensitivity : 0..MaxSensitivity ]

Intents == [ category : Categories, required_scope : Scopes ]

Deny(code) == [ kind |-> "Deny", reason_code |-> code, filter |-> <<>> ]

Allow(filter) == [ kind |-> "Allow", reason_code |-> "NONE",
                   filter |-> <<filter>> ]

\* Mutant: the scope rule is applied before the forbidden-category rule.
Resolve_ScopeFirst(role, intent) ==
    IF \/ intent.required_scope \notin role.granted_scopes
       \/ intent.required_scope \in role.denied_scopes
    THEN Deny("SCOPE_MISSING")
    ELSE IF intent.category \in role.forbidden_intent_categories
    THEN Deny("FORBIDDEN_CATEGORY")
    ELSE Allow([ max_sensitivity |-> role.max_sensitivity,
                 allowed_categories |-> role.granted_categories ])

\* resolve(role, intent) -> Decision
Resolve(role, intent) ==
    IF intent.category \in role.forbidden_intent_categories
    THEN Deny("FORBIDDEN_CATEGORY")
    ELSE IF \/ intent.required_scope \notin role.granted_scopes
            \/ intent.required_scope \in role.denied_scopes
    THEN Deny("SCOPE_MISSING")
    ELSE Allow([ max_sensitivity |-> role.max_sensitivity,
                 allowed_categories |-> role.granted_categories ])

\* Mutant: the filter is built one level above the ceiling of the decision.
Build_RaisedCeiling(decision) ==
    [decision.filter[1] EXCEPT !.max_sensitivity = @ + 1]

\* build(decision: Allow) -> RetrievalFilter
Build(decision) == decision.filter[1]

InitPolicy ==
    /\ polRole = <<>>
    /\ polIntent = <<>>
    /\ polDecision = <<>>
    /\ polFilter = <<>>

\* load(source): the role is immutable once loaded.
PolicyLoad(role) ==
    /\ polRole = <<>>
    /\ polRole' = <<role>>
    /\ UNCHANGED <<polIntent, polDecision, polFilter>>
    /\ UNCHANGED notPolicy

\* A request with the given intent reaches the resolver.
PolicyResolve(intent) ==
    /\ polRole # <<>>
    /\ polIntent' = <<intent>>
    /\ polDecision' = <<Resolve(polRole[1], intent)>>
    /\ polFilter' = <<>>
    /\ UNCHANGED polRole
    /\ UNCHANGED notPolicy

\* The filter builder runs on an Allow decision only.
PolicyBuild ==
    /\ polDecision # <<>>
    /\ polDecision[1].kind = "Allow"
    /\ polFilter = <<>>
    /\ polFilter' = <<Build(polDecision[1])>>
    /\ UNCHANGED <<polRole, polIntent, polDecision>>
    /\ UNCHANGED notPolicy

NextPolicy ==
    \/ \E role \in RoleDefs : PolicyLoad(role)
    \/ \E intent \in Intents : PolicyResolve(intent)
    \/ PolicyBuild

----------------------------------------------------------------------------
(* The API client (src/frontend/src/services/api.js) and its callers.  A    *)
(* JavaScript object is a function from field names to values; a missing    *)
(* field or argument reads as Undefined.                                    *)

Undefined == "<undefined>"

\* A value that is not falsy (of the values used here: undefined and '')
Truthy(v) == v \notin {Undefined, ""}

\* obj.k
Field(obj, k) == IF k \in DOMAIN obj THEN obj[k] ELSE Undefined

\* The fallback of the request interceptor
DefaultRole == "CHIEF_STRATEGY_OFFICER"

\* The roles the callers of sendQuery pass: the role of the active persona
\* (App.jsx:151) and the constant of ChatView (ChatView.jsx:109).
SendQueryRoles == Roles \cup {"senior_engineer"}

\* The roles the caller of getLogs passes (App.jsx:191)
GetLogsRoles == Roles

\* The role the caller of streamQuery passes (the streaming ChatView)
StreamQueryRoles == {"senior_engineer"}

\* The role the callers of api.get put into the headers of the request
\* (LiveOpsView.jsx:340, 467, DocumentChunksModal.jsx:19-21)
ExplicitHeaderRoles == {"sde_ii"}

\* Mutant: the interceptor has no fallback role.
RequestInterceptor_NoDefault(role) == role

\* The request interceptor: the value of the x-iam-role header it sets,
\* given window.currentIAMRole.
RequestInterceptor(role) == IF Truthy(role) THEN role ELSE DefaultRole

\* The x-iam-role header fetch sends for the value streamQuery gives it
\* (a header value is converted to a string).
FetchHeader(iamRole) == IF iamRole = Undefined THEN "undefined" ELSE iamRole

\* Bodies of error answers: the documented one, an empty object, and
\* objects with further fields.
Bodies ==
    { [ detail |-> "Access Denied: no code access" ],
      [ x \in {} |-> "" ],
      [ error |-> "forbidden" ],
      [ detail |-> "denied", type |-> "permission_error" ],
      [ detail |-> "denied", message |-> "Forbidden" ] }

Statuses == {200, 403, 500}

\* What comes back for an axios request: no answer at all (network error)
\* or a status with a body.
Replies ==
    { <<>> } \cup { <<[ status |-> st, data |-> d ]>> : st \in Statuses, d \in Bodies }

\* The error axios rejects with before the response interceptor sees it
AxiosError(reply) ==
    [ message |-> IF reply = <<>> THEN "Network Error"
                  ELSE "Request failed with status code",
      response |-> reply ]

\* { ...obj, ...more }: the fields of both, those of more where both have one
Spread(obj, more) ==
    [ k \in DOMAIN obj \cup DOMAIN more |->
        IF k \in DOMAIN more THEN more[k] ELSE obj[k] ]

\* The error handler of the response interceptor: what the call rejects with
ResponseInterceptor(error) ==
    IF error.response # <<>> /\ error.response[1].status = 403
    THEN LET data == error.response[1].data
         IN  Spread([ type |-> "IAM_DENIAL",
                      message |-> IF Truthy(Field(data, "detail"))
                                  THEN data.detail ELSE "Access denied" ],
                    data)
    ELSE error

\* The catch block of App.handleSend: the text of the error message shown
CatchMessage(err) ==
    IF Field(err, "type") = "IAM_DENIAL"
    THEN "Sorry, you don't have access to that information."
    ELSE IF Truthy(Field(err, "message")) THEN err.message
    ELSE "Oops! Something went wrong. Please try again."

\* The roles GET /api/personas may list: the three personas and one more
ServerRoles == Roles \cup {"FINANCE_ANALYST"}

PersonaLists ==
    UNION { [1..n -> ServerRoles] : n \in 0..MaxPersonas }

\* loadPersonas: the key a persona is filed under
PersonaKeyOf(role) ==
    IF role = "CHIEF_STRATEGY_OFFICER" THEN "CSUITE"   \* includes('CHIEF')
    ELSE IF role = "HR_DIRECTOR" THEN "HR"             \* includes('HR')
    ELSE "IT"

\* loadPersonas: personasMap, filled in list order
PersonasMap(data) ==
    [ key \in { PersonaKeyOf(data[i]) : i \in 1..Len(data) } |->
        LET last == CHOOSE i \in 1..Len(data) :
                       /\ PersonaKeyOf(data[i]) = key
                       /\ \A j \in (i + 1)..Len(data) :
                             PersonaKeyOf(data[j]) # key
        IN  data[last] ]

InitApi ==
    /\ currentIAMRole = Undefined
    /\ apiQueue = <<>>
    /\ apiWire = <<>>
    /\ apiOutcome = <<>>
    /\ apiPersonas = [ key \in PersonaKeys |-> PERSONAS[key].role ]

CallsMade == Len(apiQueue) + Len(apiWire)

\* chatAPI.sendQuery up to apiClient.post
SendQuery(iamRole) ==
    /\ CallsMade < MaxCalls
    /\ currentIAMRole' = iamRole
    /\ apiQueue' = Append(apiQueue, [ fn |-> "sendQuery", given |-> iamRole ])
    /\ UNCHANGED <<apiWire, apiOutcome, apiPersonas>>
    /\ UNCHANGED notApi

\* auditAPI.getLogs up to apiClient.get
GetLogs(iamRole) ==
    /\ CallsMade < MaxCalls
    /\ currentIAMRole' = iamRole
    /\ apiQueue' = Append(apiQueue, [ fn |-> "getLogs", given |-> iamRole ])
    /\ UNCHANGED <<apiWire, apiOutcome, apiPersonas>>
    /\ UNCHANGED notApi

\* personasAPI.getAll up to apiClient.get: no role is passed or set
GetAll ==
    /\ CallsMade < MaxCalls
    /\ apiQueue' = Append(apiQueue, [ fn |-> "getAll", given |-> Undefined ])
    /\ UNCHANGED <<currentIAMRole, apiWire, apiOutcome, apiPersonas>>
    /\ UNCHANGED notApi

\* healthAPI.check up to apiClient.get: no role is passed or set
HealthCheck ==
    /\ CallsMade < MaxCalls
    /\ apiQueue' = Append(apiQueue, [ fn |-> "check", given |-> Undefined ])
    /\ UNCHANGED <<currentIAMRole, apiWire, apiOutcome, apiPersonas>>
    /\ UNCHANGED notApi

\* api.get(url, { headers: { 'x-iam-role': role } }) up to apiClient.get:
\* the role is a header of the request's config; window.currentIAMRole is
\* not set.
ApiGet(headerRole) ==
    /\ CallsMade < MaxCalls
    /\ apiQueue' = Append(apiQueue, [ fn |-> "get", given |-> headerRole ])
    /\ UNCHANGED <<currentIAMRole, apiWire, apiOutcome, apiPersonas>>
    /\ UNCHANGED notApi

\* The request interceptor runs for the oldest waiting request, which is
\* then sent.
RunRequestInterceptor ==
    /\ apiQueue # <<>>
    /\ apiWire' = Append(apiWire,
            [ fn |-> Head(apiQueue).fn, transport |-> "axios",
              given |-> Head(apiQueue).given,
              header |-> RequestInterceptor(currentIAMRole),
              state |-> "sent" ])
    /\ apiQueue' = Tail(apiQueue)
    /\ UNCHANGED <<currentIAMRole, apiOutcome, apiPersonas>>
    /\ UNCHANGED notApi

\* chatAPI.streamQuery up to fetch
StreamQuery(iamRole) ==
    /\ CallsMade < MaxCalls
    /\ apiWire' = Append(apiWire,
            [ fn |-> "streamQuery", transport |-> "fetch",
              given |-> iamRole, header |-> FetchHeader(iamRole),
              state |-> "sent" ])
    /\ UNCHANGED <<currentIAMRole, apiQueue, apiOutcome, apiPersonas>>
    /\ UNCHANGED notApi

\* auditAPI.connectStream: new WebSocket(wsUrl); it takes no role and the
\* connection carries none.
ConnectStream ==
    /\ CallsMade < MaxCalls
    /\ apiWire' = Append(apiWire,
            [ fn |-> "connectStream", transport |-> "ws",
              given |-> Undefined, header |-> Undefined,
              state |-> "sent" ])
    /\ UNCHANGED <<currentIAMRole, apiQueue, apiOutcome, apiPersonas>>
    /\ UNCHANGED notApi

\* An axios request fails: the response interceptor's error handler decides
\* what the call rejects with; for sendQuery the catch block of handleSend
\* shows a message.
RespondError(i, reply) ==
    /\ i \in 1..Len(apiWire)
    /\ apiWire[i].transport = "axios"
    /\ apiWire[i].state = "sent"
    /\ IF reply = <<>> THEN TRUE ELSE reply[1].status # 200
    /\ LET err == ResponseInterceptor(AxiosError(reply))
       IN  apiOutcome' = << [ fn |-> apiWire[i].fn, reply |-> reply,
                              kind |-> "rejected", value |-> err,
                              shown |-> IF apiWire[i].fn = "sendQuery"
                                        THEN CatchMessage(err)
                                        ELSE Undefined ] >>
    /\ apiWire' = [apiWire EXCEPT ![i].state = "done"]
    /\ UNCHANGED <<currentIAMRole, apiQueue, apiPersonas>>
    /\ UNCHANGED notApi

\* GET /api/personas succeeds: loadPersonas replaces the personas.
PersonasLoaded(i, data) ==
    /\ i \in 1..Len(apiWire)
    /\ apiWire[i].transport = "axios"
    /\ apiWire[i].state = "sent"
    /\ apiWire[i].fn = "getAll"
    /\ apiPersonas' = PersonasMap(data)
    /\ apiWire' = [apiWire EXCEPT ![i].state = "done"]
    /\ UNCHANGED <<currentIAMRole, apiQueue, apiOutcome>>
    /\ UNCHANGED notApi

NextApi ==
    \/ \E iamRole \in SendQueryRoles : SendQuery(iamRole)
    \/ \E iamRole \in GetLogsRoles : GetLogs(iamRole)
    \/ GetAll
    \/ HealthCheck
    \/ \E headerRole \in ExplicitHeaderRoles : ApiGet(headerRole)
    \/ RunRequestInterceptor
    \/ \E iamRole \in StreamQueryRoles : StreamQuery(iamRole)
    \/ ConnectStream
    \/ \E i \in 1..MaxCalls, reply \in Replies : RespondError(i, reply)
    \/ \E i \in 1..MaxCalls, data \in PersonaLists : PersonasLoaded(i, data)

----------------------------------------------------------------------------
(* The read loop of chatAPI.streamQuery (api.js:105-127).  A text is a      *)
(* sequence of characters.  The response body is a sequence of frames, each *)
(* followed by a blank line ("\n\n"), possibly followed by the beginning of *)
(* a frame that never completes; reader.read() hands it over in chunks cut  *)
(* anywhere.                                                                *)

NL == "\n"

\* 'data: '
DataPrefix == <<"d", "a", "t", "a", ":", " ">>

\* The frames a body is made of: two data frames with JSON payloads 1 and
\* 2, a data frame with malformed JSON, a comment frame, and a frame of two
\* data lines.  No frame holds a blank line or begins or ends with a
\* newline.
Frames ==
    { DataPrefix \o <<"1">>,
      DataPrefix \o <<"2">>,
      DataPrefix \o <<"{">>,
      <<":", " ", "1">>,
      DataPrefix \o <<"1", NL>> \o DataPrefix \o <<"2">> }

\* What may follow the last frame: nothing, or a frame without its blank line
Tails == { <<>>, DataPrefix \o <<"2">>, DataPrefix \o <<"2", NL>> }

FrameLists == UNION { [1..n -> Frames] : n \in 0..MaxFrames }

RECURSIVE BodyOf(_)
\* The text of the frames, each with its blank line
BodyOf(frames) ==
    IF frames = <<>> THEN <<>>
    ELSE Head(frames) \o <<NL, NL>> \o BodyOf(Tail(frames))

RECURSIVE split(_)
\* text.split('\n\n')
split(text) ==
    IF \E i \in 1..(Len(text) - 1) : text[i] = NL /\ text[i + 1] = NL
    THEN LET i == CHOOSE i \in 1..(Len(text) - 1) :
                     /\ text[i] = NL /\ text[i + 1] = NL
                     /\ \A j \in 1..(i - 1) : ~(text[j] = NL /\ text[j + 1] = NL)
         IN  <<SubSeq(text, 1, i - 1)>> \o split(SubSeq(text, i + 2, Len(text)))
    ELSE <<text>>

\* line.startsWith('data: ')
startsWith(line, prefix) ==
    /\ Len(line) >= Len(prefix)
    /\ SubSeq(line, 1, Len(prefix)) = prefix

Whitespace == {" ", NL}

Digits == {"1", "2"}

\* JSON.parse(text): <<value>>, or <<>> when it throws.  Of the texts that
\* occur here the JSON texts are the numbers, with whitespace around them;
\* the value of a number is its digits.
JSONparse(text) ==
    LET ink == { i \in 1..Len(text) : text[i] \notin Whitespace }
    IN  IF ink = {} THEN <<>>
        ELSE LET lo == CHOOSE i \in ink : \A j \in ink : i <= j
                 hi == CHOOSE i \in ink : \A j \in ink : j <= i
             IN  IF \A i \in lo..hi : text[i] \in Digits
                 THEN <<SubSeq(text, lo, hi)>>
                 ELSE <<>>

\* The body of the for loop over one line: what it yields (nothing, or one
\* value)
YieldOfLine(line) ==
    IF startsWith(line, DataPrefix)
    THEN JSONparse(SubSeq(line, 7, Len(line)))     \* line.slice(6)
    ELSE <<>>

RECURSIVE YieldsOfLines(_)
\* for (const line of lines) ...
YieldsOfLines(lines) ==
    IF lines = <<>> THEN <<>>
    ELSE YieldOfLine(Head(lines)) \o YieldsOfLines(Tail(lines))

\* Mutant: what follows the last blank line of a chunk is dropped.
NextBuffer_Dropped(lines) == <<>>

\* buffer = lines.pop() || ''
NextBuffer(lines) == lines[Len(lines)]

\* The frames of a body that are complete within its first n characters
FramesWithin(frames, n) ==
    LET done == { k \in 0..Len(frames) :
                    Len(BodyOf(SubSeq(frames, 1, k))) <= n }
    IN  SubSeq(frames, 1, CHOOSE k \in done : \A m \in done : m <= k)

InitSse ==
    /\ sseFrames = <<>>
    /\ sseBody = <<>>
    /\ sseRead = 0
    /\ sseBuffer = <<>>
    /\ sseYielded = <<>>
    /\ sseCut = FALSE
    /\ sseState = "idle"

\* fetch resolves: the response whose body the loop will read
SseResponse(frames, tail) ==
    /\ sseState = "idle"
    /\ sseState' = "reading"
    /\ sseFrames' = frames
    /\ sseBody' = BodyOf(frames) \o tail
    /\ UNCHANGED <<sseRead, sseBuffer, sseYielded, sseCut>>
    /\ UNCHANGED notSse

\* One turn of the while loop with done = false: the chunk is the next n
\* characters of the body.
SseReadChunk(n) ==
    /\ sseState = "reading"
    /\ sseRead + n <= Len(sseBody)
    /\ LET value == SubSeq(sseBody, sseRead + 1, sseRead + n)
           lines == split(sseBuffer \o value)
       IN  /\ sseBuffer' = NextBuffer(lines)
           /\ sseYielded' = sseYielded
                  \o YieldsOfLines(SubSeq(lines, 1, Len(lines) - 1))
    /\ sseRead' = sseRead + n
    /\ sseCut' = (\/ sseCut
                  \/ /\ sseRead' < Len(BodyOf(sseFrames))
                     /\ Len(BodyOf(FramesWithin(sseFrames, sseRead')))
                        # sseRead')
    /\ UNCHANGED <<sseFrames, sseBody, sseState>>
    /\ UNCHANGED notSse

\* The turn of the while loop with done = true: the loop ends.
SseReadDone ==
    /\ sseState = "reading"
    /\ sseRead = Len(sseBody)
    /\ sseState' = "done"
    /\ UNCHANGED <<sseFrames, sseBody, sseRead, sseBuffer, sseYielded,
                   sseCut>>
    /\ UNCHANGED notSse

NextSse ==
    \/ \E frames \in FrameLists, tail \in Tails : SseResponse(frames, tail)
    \/ \E n \in 1..MaxChunk : SseReadChunk(n)
    \/ SseReadDone

----------------------------------------------------------------------------
(* The streaming chat view (src/unnamed/part_006, ChatView).  A message is  *)
(* [id, role, content, thoughts, action]; content is the sequence of the    *)
(* texts it was put together from; action "null" is null.                   *)

CvInputs == { <<>>, <<" ">>, <<"q">> }

UserId(k) == [kind |-> "user", n |-> k]     \* `user-${Date.now()}`
BotId(k) == [kind |-> "bot", n |-> k]       \* `bot-${Date.now()}`
IdxId(k) == [kind |-> "idx", n |-> k]       \* id: idx

\* The only conversation of the model
TheConversation == 1

\* The events a stream delivers
CvEventSet ==
    { [type |-> "meta", conversation_id |-> TheConversation],
      [type |-> "title"],
      [type |-> "step", text |-> "s", state |-> "processing"],
      [type |-> "step", text |-> "s", state |-> "done"],
      [type |-> "token", content |-> "t"],
      [type |-> "answer", content |-> "a"],
      [type |-> "done", content |-> "a"],
      [type |-> "done", content |-> ""],
      [type |-> "action", data |-> "ticket"],
      [type |-> "error", content |-> "e"] }

\* The 'step' branch: update the step of that text, or add it
WithStep(thoughts, event) ==
    IF \E i \in 1..Len(thoughts) : thoughts[i].text = event.text
    THEN LET existingStepIdx ==
                 CHOOSE i \in 1..Len(thoughts) :
                     /\ thoughts[i].text = event.text
                     /\ \A j \in 1..(i - 1) : thoughts[j].text # event.text
         IN  [thoughts EXCEPT ![existingStepIdx].state = event.state]
    ELSE Append(thoughts, [text |-> event.text, state |-> event.state])

\* What an event makes of the assistant message it is for
OnMessage(m, event) ==
    CASE event.type = "step" ->
           [m EXCEPT !.thoughts = WithStep(m.thoughts, event)]
      [] event.type = "token" ->
           [m EXCEPT !.content = Append(m.content, event.content)]
      [] event.type = "answer" ->
           [m EXCEPT !.content = <<event.content>>]
      [] event.type = "done" ->
           IF event.content # "" THEN [m EXCEPT !.content = <<event.content>>]
           ELSE m
      [] event.type = "action" ->
           [m EXCEPT !.action = event.data]
      [] event.type = "error" ->
           [m EXCEPT !.thoughts = Append(m.thoughts,
                        [text |-> "Error prevented response", state |-> "error"]),
                     !.content = <<"Error: ", event.content>>]
      [] OTHER -> m

\* The catch branch of handleSend
OnCatch(m) ==
    [m EXCEPT !.thoughts = Append(m.thoughts,
                 [text |-> "Connection failed", state |-> "error"]),
              !.content = <<"I encountered an error connecting">>]

\* m.id === botMsgId
ForMessage(m, botMsgId) == m.id = botMsgId

\* setMessages(prev => prev.map(m => m.id === botMsgId ? ... : m))
MapMessages(prev, botMsgId, event) ==
    [i \in 1..Len(prev) |->
        IF ForMessage(prev[i], botMsgId) THEN OnMessage(prev[i], event)
        ELSE prev[i]]

\* Mutant: the send button does not look at isLoading.
CanSend_IgnoreLoading(text, loading) == ~IsBlank(text)

\* !(!input.trim() || isLoading)
CanSend(text, loading) == ~IsBlank(text) /\ ~loading

\* The events that end the streaming display
EndsStreaming(event) == event.type \in {"answer", "done", "error"}

\* The effect on [conversationId, isStreaming] (part_006:85-94), run after a
\* render in which one of the two changed: how many loads it starts.
EffectLoads(conversationId, isStreaming) ==
    IF /\ (conversationId # cvConversationId \/ isStreaming # cvIsStreaming)
       /\ conversationId # 0
       /\ ~isStreaming
    THEN 1 ELSE 0

\* formattedMsgs of loadConversationMessages
Formatted(msgs) ==
    [i \in 1..Len(msgs) |->
        [id |-> IdxId(i - 1), role |-> msgs[i].role,
         content |-> msgs[i].content, thoughts |-> msgs[i].thoughts,
         action |-> msgs[i].action]]

\* What the service holds of a message
Stored(m) ==
    [role |-> m.role, content |-> m.content, thoughts |-> m.thoughts,
     action |-> m.action]

InitChat ==
    /\ cvInput = <<>>
    /\ cvIsLoading = FALSE
    /\ cvIsStreaming = FALSE
    /\ cvMessages = <<>>
    /\ cvConversationId = 0
    /\ cvSends = 0
    /\ cvStreams = [k \in 1..MaxSends |-> "idle"]
    /\ cvLoads = 0
    /\ cvEvents = 0
    /\ cvLastStream = 0
    /\ cvReceived = <<>>
    /\ srvConversation = <<>>

\* onChange of the input box
CvSetInput(text) ==
    /\ cvInput # text
    /\ cvInput' = text
    /\ UNCHANGED <<cvIsLoading, cvIsStreaming, cvMessages, cvConversationId,
                   cvSends, cvStreams, cvLoads, cvEvents, cvLastStream,
                   cvReceived, srvConversation>>
    /\ UNCHANGED notCv

\* handleSend up to its first await (part_006:124-152); the service takes the
\* query into the conversation.
CvHandleSend ==
    /\ cvSends < MaxSends
    /\ CanSend(cvInput, cvIsLoading)
    /\ LET k == cvSends + 1
           userMsg == [id |-> UserId(k), role |-> "user", content |-> cvInput,
                       thoughts |-> <<>>, action |-> "null"]
           initialBotMsg == [id |-> BotId(k), role |-> "assistant",
                             content |-> <<>>, thoughts |-> <<>>,
                             action |-> "null"]
       IN  /\ cvSends' = k
           /\ cvMessages' = cvMessages \o <<userMsg, initialBotMsg>>
           /\ cvStreams' = [cvStreams EXCEPT ![k] = "open"]
           /\ cvReceived' = Stored(initialBotMsg)
           /\ srvConversation' = srvConversation
                  \o <<Stored(userMsg), Stored(initialBotMsg)>>
    /\ cvInput' = <<>>
    /\ cvIsLoading' = TRUE
    /\ cvIsStreaming' = TRUE
    /\ cvLoads' = cvLoads + EffectLoads(cvConversationId, TRUE)
    /\ UNCHANGED <<cvConversationId, cvEvents, cvLastStream>>
    /\ UNCHANGED notCv

\* One turn of the for-await loop of send k (part_006:152-218); the service
\* has entered the event in the conversation before sending it.
CvEvent(k, event) ==
    /\ k \in 1..cvSends
    /\ cvStreams[k] = "open"
    /\ cvEvents < MaxEvents
    /\ cvLoads + 1 <= MaxLoads
    /\ cvEvents' = cvEvents + 1
    /\ cvLastStream' = k
    /\ cvMessages' = MapMessages(cvMessages, BotId(k), event)
    /\ cvConversationId' =
           IF /\ event.type = "meta"
              /\ event.conversation_id # 0
           THEN event.conversation_id ELSE cvConversationId
    /\ cvIsStreaming' = IF EndsStreaming(event) THEN FALSE ELSE cvIsStreaming
    /\ cvLoads' = cvLoads + EffectLoads(cvConversationId', cvIsStreaming')
    /\ cvReceived' = IF k = cvSends THEN OnMessage(cvReceived, event)
                     ELSE cvReceived
    /\ srvConversation' =
           [i \in 1..Len(srvConversation) |->
               IF i = 2 * k THEN OnMessage(srvConversation[i], event)
               ELSE srvConversation[i]]
    /\ UNCHANGED <<cvInput, cvIsLoading, cvSends, cvStreams>>
    /\ UNCHANGED notCv

\* The stream of send k ends: the loop is left, then finally.
CvStreamEnd(k) ==
    /\ k \in 1..cvSends
    /\ cvStreams[k] = "open"
    /\ cvLoads + 1 <= MaxLoads
    /\ cvStreams' = [cvStreams EXCEPT ![k] = "closed"]
    /\ cvIsLoading' = FALSE
    /\ cvIsStreaming' = FALSE
    /\ cvLoads' = cvLoads + EffectLoads(cvConversationId, FALSE)
    /\ UNCHANGED <<cvInput, cvMessages, cvConversationId, cvSends, cvEvents,
                   cvLastStream, cvReceived, srvConversation>>
    /\ UNCHANGED notCv

\* fetch or a read of the stream of send k throws: catch, then finally.
CvStreamFail(k) ==
    /\ k \in 1..cvSends
    /\ cvStreams[k] = "open"
    /\ cvLoads + 1 <= MaxLoads
    /\ cvStreams' = [cvStreams EXCEPT ![k] = "closed"]
    /\ cvMessages' = [i \in 1..Len(cvMessages) |->
                         IF ForMessage(cvMessages[i], BotId(k))
                         THEN OnCatch(cvMessages[i]) ELSE cvMessages[i]]
    /\ cvReceived' = IF k = cvSends THEN OnCatch(cvReceived) ELSE cvReceived
    /\ cvIsLoading' = FALSE
    /\ cvIsStreaming' = FALSE
    /\ cvLoads' = cvLoads + EffectLoads(cvConversationId, FALSE)
    /\ UNCHANGED <<cvInput, cvConversationId, cvSends, cvEvents, cvLastStream,
                   srvConversation>>
    /\ UNCHANGED notCv

\* getMessages answers: loadConversationMessages sets the messages.
CvLoadReply ==
    /\ cvLoads > 0
    /\ cvLoads' = cvLoads - 1
    /\ cvMessages' = Formatted(srvConversation)
    /\ UNCHANGED <<cvInput, cvIsLoading, cvIsStreaming, cvConversationId,
                   cvSends, cvStreams, cvEvents, cvLastStream, cvReceived,
                   srvConversation>>
    /\ UNCHANGED notCv

\* getMessages fails, or its timeout of 120 s passes (api.js:13): the catch
\* of loadConversationMessages.
CvLoadFail ==
    /\ cvLoads > 0
    /\ cvLoads' = cvLoads - 1
    /\ UNCHANGED <<cvInput, cvIsLoading, cvIsStreaming, cvMessages,
                   cvConversationId, cvSends, cvStreams, cvEvents,
                   cvLastStream, cvReceived, srvConversation>>
    /\ UNCHANGED notCv

NextChat ==
    \/ \E text \in CvInputs : CvSetInput(text)
    \/ CvHandleSend
    \/ \E k \in 1..MaxSends, event \in CvEventSet : CvEvent(k, event)
    \/ \E k \in 1..MaxSends : CvStreamEnd(k)
    \/ \E k \in 1..MaxSends : CvStreamFail(k)
    \/ CvLoadReply
    \/ CvLoadFail

----------------------------------------------------------------------------
(* The chat view without streaming (src/frontend/src/views/ChatView.jsx).   *)

\* Date.now() at send k: two sends are at least 2 ms apart
DateNow(k) == 2 * k

Thought(text, state) == [text |-> text, state |-> state]

\* The answers of sendQuery: with content, with message only, with an
\* attachment
NcResponses ==
    { [content |-> "c", message |-> Undefined, attachment |-> Undefined],
      [content |-> Undefined, message |-> "m", attachment |-> Undefined],
      [content |-> "c", message |-> Undefined, attachment |-> "a"] }

\* The callback of setTimeout(..., 800), ChatView.jsx:99-107
OnProgressTimer(m) ==
    [m EXCEPT !.thoughts =
        << Thought("Analyzing user intent...", "done"),
           Thought("Checking permissions...", "processing") >>]

\* After the await, ChatView.jsx:111-120
OnResponse(m, res) ==
    [m EXCEPT !.thoughts =
                  << Thought("Analyzing user intent...", "done"),
                     Thought("Checking permissions...", "done"),
                     Thought("Generatng response...", "done") >>,
              !.content = IF Truthy(res.content) THEN res.content
                          ELSE res.message,
              !.action = IF Truthy(res.attachment) THEN res.attachment
                         ELSE "null"]

\* The catch branch, ChatView.jsx:122-131
OnFailure(m) ==
    [m EXCEPT !.thoughts =
                  [i \in 1..Len(m.thoughts) |->
                      [m.thoughts[i] EXCEPT !.state =
                          IF @ = "processing" THEN "error" ELSE @]]
                  \o << Thought("Connection failed", "error") >>,
              !.content = "I encountered an error connecting"]

InitPlain ==
    /\ ncInput = <<>>
    /\ ncIsLoading = FALSE
    /\ ncMessages = <<>>
    /\ ncSends = 0
    /\ ncCalls = [k \in 1..MaxSends |-> "idle"]
    /\ ncTimers = {}

\* onChange of the input box
NcSetInput(text) ==
    /\ ncInput # text
    /\ ncInput' = text
    /\ UNCHANGED <<ncIsLoading, ncMessages, ncSends, ncCalls, ncTimers>>
    /\ UNCHANGED notNc

\* handleSend up to its await, ChatView.jsx:69-109
NcHandleSend ==
    /\ ncSends < MaxSends
    /\ ~IsBlank(ncInput) /\ ~ncIsLoading
    /\ LET k == ncSends + 1
           userMsg == [id |-> DateNow(k), role |-> "user", content |-> ncInput,
                       thoughts |-> <<>>, action |-> "null"]
           initialBotMsg ==
               [id |-> DateNow(k) + 1, role |-> "assistant", content |-> "",
                thoughts |-> << Thought("Analyzing user intent...",
                                        "processing") >>,
                action |-> "null"]
       IN  /\ ncSends' = k
           /\ ncMessages' = ncMessages \o <<userMsg, initialBotMsg>>
           /\ ncCalls' = [ncCalls EXCEPT ![k] = "pending"]
           /\ ncTimers' = ncTimers \cup {k}
    /\ ncInput' = <<>>
    /\ ncIsLoading' = TRUE
    /\ UNCHANGED notNc

\* 800 ms after send k: its timer fires
NcTimerFire(k) ==
    /\ k \in ncTimers
    /\ \A j \in ncTimers : k <= j
    /\ ncTimers' = ncTimers \ {k}
    /\ ncMessages' = [i \in 1..Len(ncMessages) |->
                         IF ncMessages[i].id = DateNow(k) + 1
                         THEN OnProgressTimer(ncMessages[i])
                         ELSE ncMessages[i]]
    /\ UNCHANGED <<ncInput, ncIsLoading, ncSends, ncCalls>>
    /\ UNCHANGED notNc

\* sendQuery of send k resolves: the rest of the try block, then finally
NcResponse(k, res) ==
    /\ k \in 1..ncSends
    /\ ncCalls[k] = "pending"
    /\ ncCalls' = [ncCalls EXCEPT ![k] = "settled"]
    /\ ncMessages' = [i \in 1..Len(ncMessages) |->
                         IF ncMessages[i].id = DateNow(k) + 1
                         THEN OnResponse(ncMessages[i], res)
                         ELSE ncMessages[i]]
    /\ ncIsLoading' = FALSE
    /\ UNCHANGED <<ncInput, ncSends, ncTimers>>
    /\ UNCHANGED notNc

\* sendQuery of send k rejects: catch, then finally
NcFailure(k) ==
    /\ k \in 1..ncSends
    /\ ncCalls[k] = "pending"
    /\ ncCalls' = [ncCalls EXCEPT ![k] = "settled"]
    /\ ncMessages' = [i \in 1..Len(ncMessages) |->
                         IF ncMessages[i].id = DateNow(k) + 1
                         THEN OnFailure(ncMessages[i])
                         ELSE ncMessages[i]]
    /\ ncIsLoading' = FALSE
    /\ UNCHANGED <<ncInput, ncSends, ncTimers>>
    /\ UNCHANGED notNc

NextPlain ==
    \/ \E text \in CvInputs : NcSetInput(text)
    \/ NcHandleSend
    \/ \E k \in 1..MaxSends : NcTimerFire(k)
    \/ \E k \in 1..MaxSends, res \in NcResponses : NcResponse(k, res)
    \/ \E k \in 1..MaxSends : NcFailure(k)

----------------------------------------------------------------------------
(* The live-ops view (src/frontend/src/views/LiveOpsView.jsx).  Time is     *)
(* counted in units of 500 ms.                                              *)

\* alerts, LiveOpsView.jsx:35-39: id -> svc
AlertSvc == [a \in 1..3 |->
                CASE a = 1 -> "payments-v2"
                  [] a = 2 -> "redis-cache-01"
                  [] OTHER -> "frontend-web"]

Alerts == DOMAIN AlertSvc

\* The delays of the four timers of startDiagnosis: 500, 1500, 2500, 3000 ms
DiagnosisDelays == <<1, 3, 5, 6>>

\* The delays of the timers of triggerRemediation: 1000 ms, then 2000 ms
ExecutingDelay == 2
CompleteDelay == 4

\* The step that timer n of startDiagnosis(alert) adds
DiagnosisStep(n, alert) ==
    CASE n = 1 -> [text |-> <<"Aggregating logs for service: ", AlertSvc[alert]>>,
                   status |-> "done"]
      [] n = 2 -> [text |-> <<"Correlating event spikes with deployment window">>,
                   status |-> "done"]
      [] OTHER -> [text |-> <<"Detecting pattern: Connection Leak in DB Pool">>,
                   status |-> "warning"]

\* simulatedAction null: the object with no field but the mark of null, so
\* that { ...null, status } is the object with the field status alone
NoAction == [status |-> "null"]

\* prev => ({ ...prev, status })
WithStatus(prev, status) == [prev EXCEPT !.status = status]

\* The render of the action panel (LiveOpsView.jsx:278-306) reads
\* simulatedAction.payload.command when the status is not 'pending'.
Renders(action) ==
    \/ action = NoAction
    \/ action.status = "pending"
    \/ "payload" \in DOMAIN action

InitOps ==
    /\ opActiveAlert = 0
    /\ opDiagnosis = [state |-> "idle", steps |-> <<>>]
    /\ opAction = NoAction
    /\ opLogs = <<>>
    /\ opTimers = <<>>
    /\ opNow = 0
    /\ opClicks = 0

\* A timer is due and no timer set before it is due as early
Due(i) ==
    /\ i \in 1..Len(opTimers)
    /\ opTimers[i].due <= opNow
    /\ \A j \in 1..Len(opTimers) :
           \/ opTimers[j].due > opTimers[i].due
           \/ opTimers[j].due = opTimers[i].due /\ j >= i

Without(seq, i) ==
    SubSeq(seq, 1, i - 1) \o SubSeq(seq, i + 1, Len(seq))

\* startDiagnosis(alert), LiveOpsView.jsx:41-51
OpStartDiagnosis(alert) ==
    /\ Renders(opAction)
    /\ opClicks < MaxClicks
    /\ opClicks' = opClicks + 1
    /\ opActiveAlert' = alert
    /\ opDiagnosis' = [state |-> "analyzing", steps |-> <<>>]
    /\ opAction' = NoAction
    /\ opTimers' = opTimers \o
           [n \in 1..4 |->
               [due |-> opNow + DiagnosisDelays[n],
                kind |-> IF n = 4 THEN "complete" ELSE "step",
                n |-> n, alert |-> alert]]
    /\ UNCHANGED <<opLogs, opNow>>
    /\ UNCHANGED notOp

\* triggerRemediation(activeAlert), LiveOpsView.jsx:53-74; its button is
\* rendered while an alert is selected and the diagnosis is complete.
OpTriggerRemediation ==
    /\ Renders(opAction)
    /\ opClicks < MaxClicks
    /\ opActiveAlert # 0
    /\ opDiagnosis.state = "complete"
    /\ opClicks' = opClicks + 1
    /\ opAction' =
           [status |-> "pending",
            action |-> IF opActiveAlert = 1 THEN "restart_pod"
                       ELSE "scale_replicas",
            target |-> AlertSvc[opActiveAlert],
            payload |-> [command |-> <<"kubectl", "delete", "pod",
                                       AlertSvc[opActiveAlert]>>]]
    /\ opTimers' = Append(opTimers,
           [due |-> opNow + ExecutingDelay, kind |-> "executing", n |-> 0,
            alert |-> opActiveAlert])
    /\ UNCHANGED <<opActiveAlert, opDiagnosis, opLogs, opNow>>
    /\ UNCHANGED notOp

\* The callback of the timer that is due
OpTimerFire(i) ==
    /\ Renders(opAction)
    /\ Due(i)
    /\ LET t == opTimers[i]
       IN  /\ opDiagnosis' =
                  CASE t.kind = "step" ->
                         [opDiagnosis EXCEPT !.steps =
                             Append(@, DiagnosisStep(t.n, t.alert))]
                    [] t.kind = "complete" ->
                         [opDiagnosis EXCEPT !.state = "complete"]
                    [] OTHER -> opDiagnosis
           /\ opAction' =
                  CASE t.kind = "executing" -> WithStatus(opAction, "executing")
                    [] t.kind = "finish" -> WithStatus(opAction, "complete")
                    [] OTHER -> opAction
           /\ opLogs' =
                  IF t.kind = "finish"
                  THEN Append(opLogs,
                           [sys |-> "OPS_AGENT",
                            msg |-> << IF t.alert = 1 THEN "restart_pod"
                                       ELSE "scale_replicas",
                                       AlertSvc[t.alert] >>])
                  ELSE opLogs
           /\ opTimers' =
                  IF t.kind = "executing"
                  THEN Append(Without(opTimers, i),
                           [due |-> opNow + CompleteDelay, kind |-> "finish",
                            n |-> 0, alert |-> t.alert])
                  ELSE Without(opTimers, i)
    /\ UNCHANGED <<opActiveAlert, opNow, opClicks>>
    /\ UNCHANGED notOp

\* 500 ms pass; the timers that are due have fired
OpTick ==
    /\ opNow < MaxOpClock
    /\ \A i \in 1..Len(opTimers) : opTimers[i].due > opNow
    /\ opNow' = opNow + 1
    /\ UNCHANGED <<opActiveAlert, opDiagnosis, opAction, opLogs, opTimers,
                   opClicks>>
    /\ UNCHANGED notOp

\* The most timers there can be: four for each start of a diagnosis
MaxOpTimers == 4 * MaxClicks

NextOps ==
    \/ \E alert \in Alerts : OpStartDiagnosis(alert)
    \/ OpTriggerRemediation
    \/ \E i \in 1..MaxOpTimers : OpTimerFire(i)
    \/ OpTick

Init ==
    /\ InitMain /\ InitView /\ InitPolicy /\ InitApi /\ InitSse /\ InitChat
    /\ InitPlain /\ InitOps

Next ==
    \/ Tick
    \/ \E k \in PersonaKeys : SwitchPersona(k)
    \/ \E text \in Inputs : SetInput(text)
    \/ ToggleLogs
    \/ HandleSend
    \/ TimerFire

Spec == Init /\ [][Next]_vars

SpecView == Init /\ [][NextView]_vars

SpecPolicy == Init /\ [][NextPolicy]_vars

SpecApi == Init /\ [][NextApi]_vars

SpecSse == Init /\ [][NextSse]_vars

SpecChat == Init /\ [][NextChat]_vars

SpecPlain == Init /\ [][NextPlain]_vars

SpecOps == Init /\ [][NextOps]_vars

\* The calls through apiClient settle: an answer, an error, or the timeout of
\* 120 s (api.js:13).  Nothing bounds the stream of streamQuery: fetch is
\* called without a signal and the read loop has no timer (api.js:90-128).
SpecChatLive ==
    /\ Init
    /\ [][NextChat]_vars
    /\ WF_vars(CvLoadReply \/ CvLoadFail)

----------------------------------------------------------------------------
(* Properties of the prototype (Spec) *)

\* The persona rules of the callback as one table, in program order:
\* the keywords of a rule and the scope it names as actionType.
PersonaRules ==
    << [ role |-> "SR_DEVOPS_ENGINEER", keys |-> {"ticket", "bug", "jira"},
         scope |-> "WRITE_JIRA" ],
       [ role |-> "SR_DEVOPS_ENGINEER", keys |-> {"code", "grep", "function"},
         scope |-> "READ_CODEBASE" ],
       [ role |-> "HR_DIRECTOR", keys |-> {"policy", "pto"},
         scope |-> "READ_POLICY_DOCS" ],
       [ role |-> "HR_DIRECTOR", keys |-> {"interview", "schedule"},
         scope |-> "CALENDAR_WRITE" ],
       [ role |-> "CHIEF_STRATEGY_OFFICER", keys |-> {"revenue", "financial"},
         scope |-> "READ_FINANCIALS" ],
       [ role |-> "CHIEF_STRATEGY_OFFICER", keys |-> {"project", "timeline"},
         scope |-> "READ_STRATEGY" ] >>

RuleMatches(rule, content) ==
    \E kw \in rule.keys : includes(LowerText(content), kw)

\* The scope the intent of a text requires: that of the first rule of the
\* table the text matches, whichever persona owns the rule; NONE for a text
\* that matches no rule.
RequiredScope(content) ==
    IF \E i \in 1..Len(PersonaRules) : RuleMatches(PersonaRules[i], content)
    THEN PersonaRules[CHOOSE i \in 1..Len(PersonaRules) :
                        /\ RuleMatches(PersonaRules[i], content)
                        /\ \A j \in 1..(i - 1) :
                              ~RuleMatches(PersonaRules[j], content)].scope
    ELSE "NONE"

\* The number of document reads and attachment builds of a callback
CollaboratorCalls(trace) ==
    Cardinality({ i \in 1..Len(trace) : trace[i] \in {"READ_DOC", "ATTACH"} })

\* The audit entries recorded for request number n
EntriesOf(n) == { i \in 1..Len(auditLogs) : auditLogs[i].req = n }

\* C1: every request whose intent requires a scope the role is not granted
\* is recorded as DENIED and makes no retrieval call.
C1_MissingScopeDenied ==
    \A n \in 1..Len(handled) :
        LET q == submitted[handled[n].req]
        IN  (RequiredScope(q.content) # "NONE"
             /\ RequiredScope(q.content) \notin PermissionsOf(q.role))
            => /\ \A i \in EntriesOf(handled[n].req) :
                     auditLogs[i].status = "DENIED"
               /\ CollaboratorCalls(handled[n].trace) = 0

\* C2: a denied request reads no document and produces no response content
\* or attachment, before or after the decision.
C2_DenyBeforeRetrieval ==
    \A n \in 1..Len(handled) :
        handled[n].status = "DENIED"
        => \A i \in 1..Len(handled[n].trace) :
              handled[n].trace[i] \notin {"READ_DOC", "ATTACH", "GENERATE"}

\* A text matches a rule of the persona of the role (a grant applies)
GrantApplies(role, content) ==
    \E i \in 1..Len(PersonaRules) :
        PersonaRules[i].role = role /\ RuleMatches(PersonaRules[i], content)

\* A text holds a keyword the role is denied (a deny applies)
DenyApplies(role, content) ==
    \/ role # "SR_DEVOPS_ENGINEER" /\ includes(LowerText(content), "code")
    \/ role # "CHIEF_STRATEGY_OFFICER"
       /\ includes(LowerText(content), "financial")

\* C3: deny-overrides: a request to which both a grant and a deny apply is
\* recorded as DENIED and answered without attachment.
C3_DenyOverrides ==
    \A n \in 1..Len(handled) :
        LET q == submitted[handled[n].req]
        IN  (GrantApplies(q.role, q.content) /\ DenyApplies(q.role, q.content))
            => /\ handled[n].attachment = "NONE"
               /\ \A i \in EntriesOf(handled[n].req) :
                     auditLogs[i].status = "DENIED"
               /\ EntriesOf(handled[n].req) # {}

C3_Witness ==
    \E n \in 1..Len(handled) :
        LET q == submitted[handled[n].req]
        IN  /\ GrantApplies(q.role, q.content)
            /\ DenyApplies(q.role, q.content)
            /\ handled[n].status = "DENIED"
            /\ q.role = "SR_DEVOPS_ENGINEER"

\* C4: once no request is pending, the audit log holds exactly one entry per
\* submitted request, with the role that issued it and its outcome.
C4_OneEntryPerRequest ==
    timers = <<>>
    => /\ Len(auditLogs) = nextReq
       /\ \A n \in 1..nextReq :
             /\ Cardinality(EntriesOf(n)) = 1
             /\ \A i \in EntriesOf(n) :
                   /\ auditLogs[i].iamRole = submitted[n].role
                   /\ \E m \in 1..Len(handled) :
                         /\ handled[m].req = n
                         /\ handled[m].status = auditLogs[i].status

\* Two requests of different roles that were pending together (their
\* callbacks ran in the same millisecond) have both been handled.
C4_Witness ==
    /\ timers = <<>>
    /\ nextReq = 2
    /\ Len(auditLogs) = 2
    /\ submitted[1].role # submitted[2].role
    /\ auditLogs[1].id = auditLogs[2].id
    /\ auditLogs[1].status # auditLogs[2].status

\* C6: audit ids are strictly increasing in recording order (the log is
\* newest first).
C6_IdsStrictlyIncreasing ==
    \A i, j \in 1..Len(auditLogs) :
        i < j => auditLogs[i].id > auditLogs[j].id

\* C9: a response is shown only with the audit entry of its request on
\* record.
C9_AuditBeforeResponse ==
    \A i \in 1..Len(messages) :
        (messages[i].type = "agent" /\ messages[i].req # 0)
        => EntriesOf(messages[i].req) # {}

C9_Witness ==
    \E i \in 1..Len(messages) :
        /\ messages[i].type = "agent"
        /\ messages[i].req # 0
        /\ messages[i].content = "ACCESS_DENIED"
        /\ EntriesOf(messages[i].req) # {}

\* C10: two requests of the same role with the same text get the same
\* decision.
C10_DecisionDeterministic ==
    \A i, j \in 1..Len(auditLogs) :
        LET a == submitted[auditLogs[i].req]
            b == submitted[auditLogs[j].req]
        IN  (a.role = b.role /\ a.content = b.content)
            => auditLogs[i].status = auditLogs[j].status

\* The same role has sent the same text twice; the two decisions were taken
\* at different times, the second after a switch to another persona, and
\* the first was a denial.
C10_Witness ==
    /\ Len(auditLogs) = 2
    /\ submitted[1] = submitted[2]
    /\ auditLogs[1].id # auditLogs[2].id
    /\ auditLogs[2].status = "DENIED"
    /\ PERSONAS[activePersona].role # submitted[2].role

\* The intent recorded for a text: the scope the first matching rule of the
\* table names, GENERAL_QUERY for a text that matches no rule.
IntentOfText(content) ==
    IF RequiredScope(content) = "NONE" THEN "GENERAL_QUERY"
    ELSE RequiredScope(content)

\* C11: the intent recorded for a request depends on its text alone: two
\* requests with the same text are recorded with the same action, whichever
\* roles sent them.
C11_IntentFromTextAlone ==
    \A i, j \in 1..Len(auditLogs) :
        submitted[auditLogs[i].req].content = submitted[auditLogs[j].req].content
        => auditLogs[i].action = auditLogs[j].action

\* C12: the intent recorded for a request is that of the first rule, in the
\* fixed order of the table, that its lower-cased text matches, and
\* GENERAL_QUERY when it matches none.
C12_FirstMatchingRule ==
    \A i \in 1..Len(auditLogs) :
        auditLogs[i].action = IntentOfText(submitted[auditLogs[i].req].content)

\* Within the rules of the persona that sent the request the order does
\* hold: the action is that of the first rule of the persona the text
\* matches, GENERAL_QUERY when it matches none of them.
PersonaFirstMatch ==
    \A i \in 1..Len(auditLogs) :
        LET q == submitted[auditLogs[i].req]
            own == { k \in 1..Len(PersonaRules) :
                       /\ PersonaRules[k].role = q.role
                       /\ RuleMatches(PersonaRules[k], q.content) }
        IN  IF own = {} THEN auditLogs[i].action = "GENERAL_QUERY"
            ELSE \E k \in own :
                    /\ \A m \in own : k <= m
                    /\ auditLogs[i].action = PersonaRules[k].scope

\* C15: the chief strategy officer, who is granted READ_FINANCIALS, asking
\* "Summarize Q3 Revenue" is allowed: the request is answered from the
\* financial document and recorded as READ_FINANCIALS, ALLOWED.
C15_GrantedScopeAllowed ==
    \A n \in 1..Len(handled) :
        (/\ handled[n].role = "CHIEF_STRATEGY_OFFICER"
         /\ handled[n].content = <<"Summarize", "Q3", "Revenue">>)
        => /\ "READ_FINANCIALS" \in PermissionsOf(handled[n].role)
           /\ handled[n].status = "ALLOWED"
           /\ handled[n].responseContent = "MOCK_DOCS.financials"
           /\ EntriesOf(handled[n].req) # {}
           /\ \A i \in EntriesOf(handled[n].req) :
                 /\ auditLogs[i].status = "ALLOWED"
                 /\ auditLogs[i].action = "READ_FINANCIALS"
                 /\ auditLogs[i].iamRole = "CHIEF_STRATEGY_OFFICER"

\* The chief strategy officer's revenue question has been answered and
\* recorded.
C15_Witness ==
    \E n \in 1..Len(handled) :
        /\ handled[n].role = "CHIEF_STRATEGY_OFFICER"
        /\ handled[n].content = <<"Summarize", "Q3", "Revenue">>
        /\ \E i \in EntriesOf(handled[n].req) : auditLogs[i].status = "ALLOWED"

\* C16: the HR director asking "employee compensation breakdown" is denied,
\* and the request is recorded as DENIED.
C16_InsufficientSensitivityDenied ==
    \A n \in 1..Len(handled) :
        (/\ handled[n].role = "HR_DIRECTOR"
         /\ handled[n].content = <<"employee", "compensation", "breakdown">>)
        => /\ handled[n].status = "DENIED"
           /\ \A i \in EntriesOf(handled[n].req) :
                 auditLogs[i].status = "DENIED"

\* C24: the chat holds only messages produced under the active persona:
\* its greeting, and the messages of requests sent under it.
C24_ChatOfActivePersona ==
    \A i \in 1..Len(messages) :
        IF messages[i].req = 0
        THEN messages[i].iamRole = PERSONAS[activePersona].role
        ELSE /\ submitted[messages[i].req].role = PERSONAS[activePersona].role
             /\ messages[i].type = "agent"
                => messages[i].iamRole = PERSONAS[activePersona].role

----------------------------------------------------------------------------
(* Properties of the audit panel (SpecView) *)

Range(seq) == { seq[i] : i \in 1..Len(seq) }

\* The number of times an entry occurs in a list
Occurrences(seq, e) == Cardinality({ i \in 1..Len(seq) : seq[i] = e })

C5_PrototypeAppendOnly ==
    [][\E n \in 0..1 :
          /\ Len(auditLogs') = Len(auditLogs) + n
          /\ \A i \in 1..Len(auditLogs) : auditLogs'[i + n] = auditLogs[i]]_vars

\* Nothing is on its way to the client and the subscription is open
Quiescent ==
    /\ wsState = "open"
    /\ wsChannel = <<>>
    /\ httpReplies = {}
    /\ httpRequests = 0

\* C7: once everything sent has arrived, every entry recorded under the open
\* subscription (and young enough for the window) is in the list exactly
\* once.
C7_ExactlyOnce ==
    Quiescent
    => \A k \in 1..Len(srvLog) :
          (srvLog[k].sub = viewOps /\ k > Len(srvLog) - ViewLimit)
          => Occurrences(viewLogs, srvLog[k]) = 1

\* C8: the list is most-recent-first: no entry is placed ahead of an entry
\* recorded after it.
C8_MostRecentFirst ==
    \A i, j \in 1..Len(viewLogs) :
        i < j => viewLogs[i].id >= viewLogs[j].id

\* C22: the audit subscription lives only while the panel is shown: at most
\* one audit socket is open, none is open while the panel is hidden, and
\* while the panel is hidden the list changes only when the answer of a
\* query replaces it: no streamed entry is added.
C22_SubscriptionOnlyWhileShown ==
    /\ [](/\ wsSockets <= 1
          /\ wsSockets > 0 => viewShowLogs
          /\ wsState # "none" <=> wsSockets = 1)
    /\ [][~viewShowLogs'
          => \/ viewLogs' = viewLogs
             \/ /\ viewLogs' \in httpReplies
                /\ httpReplies' = httpReplies \ {viewLogs'}]_vars

\* The panel is hidden after a streamed entry has reached the list, and an
\* entry recorded since is not in the list.
C22_Witness ==
    /\ ~viewShowLogs
    /\ wsSockets = 0
    /\ httpReplies = {}
    /\ httpRequests = 0
    /\ \E k \in 1..Len(srvLog) :
          srvLog[k].sub # 0 /\ srvLog[k] \in Range(viewLogs)
    /\ \E k \in 1..Len(srvLog) :
          srvLog[k].sub = 0 /\ srvLog[k] \notin Range(viewLogs)

----------------------------------------------------------------------------
(* Properties of the resolver and the filter builder (SpecPolicy) *)

----------------------------------------------------------------------------
(* Properties of the API client (SpecApi) *)

\* C17: every HTTP request the client has sent, through the axios client or
\* through fetch, carries an x-iam-role header that is present and not empty.
C17_RoleHeaderOnEveryRequest ==
    \A i \in 1..Len(apiWire) :
        apiWire[i].transport \in {"axios", "fetch"}
        => Truthy(apiWire[i].header)

\* A call that passes no role has been sent before any role was set, with
\* the fallback of the interceptor as header, and a streaming call has been
\* sent with the role it was given.
C17_Witness ==
    /\ currentIAMRole = Undefined
    /\ \E i \in 1..Len(apiWire) :
          /\ apiWire[i].fn \in {"getAll", "check"}
          /\ apiWire[i].header = DefaultRole
    /\ \E i \in 1..Len(apiWire) :
          /\ apiWire[i].transport = "fetch"
          /\ apiWire[i].header = apiWire[i].given

AuditReads == {"getLogs", "connectStream"}

\* C18: an audit query or an audit stream connection is only sent with the
\* role of its caller attached.
C18_AuditReadsCarryRole ==
    \A i \in 1..Len(apiWire) :
        apiWire[i].fn \in AuditReads
        => /\ Truthy(apiWire[i].header)
           /\ apiWire[i].header = apiWire[i].given

\* C19: a request whose role identifier is missing or unknown is never sent
\* under the identity of a known role, and a persona of an unknown role is
\* never shown in the place of a known one.
C19_NoDefaultRole ==
    /\ \A i \in 1..Len(apiWire) :
          apiWire[i].given \notin Roles => apiWire[i].header \notin Roles
    /\ \A key \in DOMAIN apiPersonas : apiPersonas[key] \in Roles

\* C20: a call answered with status 403 rejects with type IAM_DENIAL and the
\* detail of the body (or 'Access denied') as message, whatever else the body
\* holds; a call that fails otherwise rejects with the error unchanged.
C20_DenialSurfaced ==
    apiOutcome # <<>>
    => LET o == apiOutcome[1]
       IN  IF o.reply # <<>> /\ o.reply[1].status = 403
           THEN /\ Field(o.value, "type") = "IAM_DENIAL"
                /\ Field(o.value, "message")
                     = IF Truthy(Field(o.reply[1].data, "detail"))
                       THEN o.reply[1].data.detail ELSE "Access denied"
           ELSE o.value = AxiosError(o.reply)

\* C23: the x-iam-role header sent with a request is the role its caller
\* supplied for it, as iamRole argument or as header of the request.
C23_HeaderIsCallersRole ==
    \A i \in 1..Len(apiWire) :
        (apiWire[i].transport \in {"axios", "fetch"} /\ Truthy(apiWire[i].given))
        => apiWire[i].header = apiWire[i].given

----------------------------------------------------------------------------
(* Properties of the stream reader (SpecSse) *)

RECURSIVE PayloadsOf(_)
\* The JSON payloads of the data frames of a list of frames, in order
PayloadsOf(frames) ==
    IF frames = <<>> THEN <<>>
    ELSE (IF startsWith(Head(frames), DataPrefix)
          THEN JSONparse(SubSeq(Head(frames), Len(DataPrefix) + 1,
                                Len(Head(frames))))
          ELSE <<>>)
         \o PayloadsOf(Tail(frames))

\* C25: whatever the chunks, what streamQuery has yielded is the JSON
\* payloads of the data frames received complete so far, in order, each
\* once; frames with malformed JSON and other frames are skipped, and the
\* stream goes on after them.
C25_FramesYieldedOnce ==
    sseYielded = PayloadsOf(FramesWithin(sseFrames, sseRead))

\* A frame was cut by a chunk boundary and yielded, after a malformed frame
\* had been skipped.
C25_Witness ==
    /\ sseState = "done"
    /\ sseFrames = <<DataPrefix \o <<"{">>, DataPrefix \o <<"2">> >>
    /\ sseYielded = << <<"2">> >>
    /\ sseCut

----------------------------------------------------------------------------
(* Properties of the streaming chat view (SpecChat, SpecChatLive) *)

\* The sends whose stream is being read
InFlight == { k \in 1..MaxSends : cvStreams[k] = "open" }

\* C21: after a send the view leaves its loading state and accepts input
\* again, whatever the service does, also when it never ends the stream.
C21_SendEventuallySettles == cvIsLoading ~> ~cvIsLoading

\* C26: at most one query is in flight; a send is accepted only when
\* isLoading is false and the input is not blank, and appends one user
\* message followed by one assistant message; an event of a stream changes
\* no message but the assistant message of its send.
C26_OneQueryInFlight ==
    /\ [](Cardinality(InFlight) <= 1)
    /\ [][cvSends' # cvSends
          => /\ ~cvIsLoading
             /\ ~IsBlank(cvInput)
             /\ Len(cvMessages') = Len(cvMessages) + 2
             /\ SubSeq(cvMessages', 1, Len(cvMessages)) = cvMessages
             /\ cvMessages'[Len(cvMessages) + 1].role = "user"
             /\ cvMessages'[Len(cvMessages) + 1].content = cvInput
             /\ cvMessages'[Len(cvMessages) + 2].role = "assistant"
             /\ cvMessages'[Len(cvMessages) + 2].id = BotId(cvSends')]_vars
    /\ [][cvEvents' # cvEvents
          => /\ cvStreams[cvLastStream'] = "open"
             /\ Len(cvMessages') = Len(cvMessages)
             /\ \A i \in 1..Len(cvMessages) :
                    cvMessages'[i] # cvMessages[i]
                    => cvMessages[i].id = BotId(cvLastStream')]_vars

\* The second send was accepted after the first stream had ended, and a
\* token of its stream went to its assistant message and to no other.
C26_Witness ==
    /\ cvSends = 2
    /\ InFlight = {2}
    /\ Len(cvMessages) = 4
    /\ cvMessages[2].id = BotId(1) /\ cvMessages[2].content = <<>>
    /\ cvMessages[4].id = BotId(2) /\ cvMessages[4].content = <<"t">>

\* C27: until the next send the last message shown is the assistant message
\* of the latest send and holds everything received for it: the events
\* delivered, also after answer or done, and the error of a failed stream.
C27_ReceivedStaysAttached ==
    cvSends > 0
    => /\ Len(cvMessages) > 0
       /\ Stored(cvMessages[Len(cvMessages)]) = cvReceived

----------------------------------------------------------------------------
(* Properties of the chat view without streaming (SpecPlain) *)

\* C28: once the response or the failure of a send has been applied to its
\* assistant message, no thinking step of that message is 'processing'.
C28_StepsFinalAfterResponse ==
    \A k \in 1..ncSends :
        ncCalls[k] = "settled"
        => \A i \in 1..Len(ncMessages) :
               ncMessages[i].id = DateNow(k) + 1
               => \A t \in 1..Len(ncMessages[i].thoughts) :
                      ncMessages[i].thoughts[t].state # "processing"

----------------------------------------------------------------------------
(* Properties of the live-ops view (SpecOps) *)

\* The order of the statuses of a simulated action
StatusRank(status) ==
    CASE status = "pending" -> 1
      [] status = "executing" -> 2
      [] OTHER -> 3

\* C29: a simulated action that is not null carries action, target and
\* payload, and its status only moves pending -> executing -> complete,
\* also when an alert is selected while the remediation is in progress.
C29_ActionAlwaysWhole ==
    /\ [](opAction # NoAction
          => {"action", "target", "payload"} \subseteq DOMAIN opAction)
    /\ [][(opAction # NoAction /\ opAction' # NoAction
              /\ opAction'.status # opAction.status)
          => \/ opAction'.status = "pending"
             \/ StatusRank(opAction'.status)
                    = StatusRank(opAction.status) + 1]_vars

\* The three steps of the diagnosis of an alert
StepsOf(alert) == [n \in 1..3 |-> DiagnosisStep(n, alert)]

\* C30: when the diagnosis is complete its trace is the three steps of the
\* selected alert, in order.
C30_CompleteTraceOfSelectedAlert ==
    opDiagnosis.state = "complete"
    => opDiagnosis.steps = StepsOf(opActiveAlert)

====
